---- MODULE Spec2Model ----
(***************************************************************************)
(* A model of the octopusenergyapi client library: the request executor    *)
(* (Client.do), the pagination walker (Client.ListProducts), the domain    *)
(* operations, the postcode validator and the static reference tables.     *)
(*                                                                         *)
(* Representation of Go strings.  A string the code scans, trims, escapes  *)
(* or concatenates (URLs, paths, postcodes, API keys, MPANs passed in) is  *)
(* a sequence of chunks: each chunk is either one character the code may   *)
(* look at (" ", "%", "/", ":", a letter or digit of a postcode ...) or a  *)
(* run of ordinary characters that is only copied.  The empty string is    *)
(* <<>> and concatenation is \o.  A string the code only copies or         *)
(* compares for equality (group ids, names, decoded MPANs, product codes)  *)
(* is a TLA+ string.  An error is the sequence of its message parts,       *)
(* outermost wrapping first; the nil error is <<>>.                        *)
(***************************************************************************)
EXTENDS Integers, Sequences, FiniteSets, TLC

(***************************************************************************)
(* Bounds of the model.                                                    *)
(***************************************************************************)
\* the longest chain of pages the service serves to one ListProducts call
MaxPages == 3
\* the same while two goroutines call at once
ConcPages == 2
\* the number of GETs of one ListProducts call that are followed when the
\* service's next links never end
LoopGets == 7
\* the largest number of results in one page of products
MaxBatch == 1
\* the largest number of readings in one consumption answer
MaxReadings == 2
\* the largest number of results in one grid-supply-point answer
MaxResults == 2

\* the goroutines that may call into the library
Threads == {1, 2}

(***************************************************************************)
(* Constants of the program.                                               *)
(***************************************************************************)
\* net/http's StatusOK, the only status do accepts
StatusOK == 200

\* structs.go: const baseURL = "https://api.octopus.energy/v1"
baseURL == <<"https", "://", "api.octopus.energy", "/", "v1">>

NoErr == <<>>

\* errors.New(msg)
ErrNew(msg) == <<msg>>

\* errors.Errorf(msg + ": %v", err): the context followed by the cause's text
\* errors.Errorf(msg): the context alone, the cause dropped
ErrWrapNoCause(msg, err) == <<msg>>

ErrWrap(msg, err) == <<msg>> \o err

(***************************************************************************)
(* The static reference tables (structs.go).                               *)
(***************************************************************************)
GSPRow(id, name, operator, phone, participant, group) ==
    [ID |-> id, Name |-> name, Operator |-> operator, PhoneNumber |-> phone,
     ParticipantID |-> participant, GSPGroupID |-> group]

\* the table with the group id of its first row given to the last row too
GSPsInitDuplicateID ==
    << GSPRow(10, "Eastern England", "UK Power Networks", "0800 029 4285", "EELC", "_A"),
       GSPRow(11, "East Midlands", "Western Power Distribution", "0800 096 3080", "EMEB", "_B"),
       GSPRow(12, "London", "UK Power Networks", "0800 029 4285", "LOND", "_C"),
       GSPRow(13, "Merseyside and Northern Wales", "SP Energy Networks", "0330 10 10 444", "MANW", "_D"),
       GSPRow(14, "West Midlands", "Western Power Distribution", "0800 096 3080", "MIDE", "_E"),
       GSPRow(15, "North Eastern England", "Northern Powergrid", "0800 011 3332", "NEEB", "_F"),
       GSPRow(16, "North Western England", "Electricity North West", "0800 048 1820", "NORW", "_G"),
       GSPRow(17, "Northern Scotland", "Scottish & Southern Electricity Networks", "0800 048 3516", "HYDE", "_P"),
       GSPRow(18, "Southern Scotland", "SP Energy Networks", "0330 10 10 444", "SPOW", "_N"),
       GSPRow(19, "South Eastern England", "UK Power Networks", "0800 029 4285", "SEEB", "_J"),
       GSPRow(20, "Southern England", "Scottish & Southern Electricity Networks", "0800 048 3516", "SOUT", "_H"),
       GSPRow(21, "Southern Wales", "Western Power Distribution", "0800 096 3080", "SWAE", "_K"),
       GSPRow(22, "South Western England", "Western Power Distribution", "0800 096 3080", "SWEB", "_L"),
       GSPRow(23, "Yorkshire", "Northern Powergrid", "0800 011 3332", "YELG", "_A") >>

GSPsInit ==
    << GSPRow(10, "Eastern England", "UK Power Networks", "0800 029 4285", "EELC", "_A"),
       GSPRow(11, "East Midlands", "Western Power Distribution", "0800 096 3080", "EMEB", "_B"),
       GSPRow(12, "London", "UK Power Networks", "0800 029 4285", "LOND", "_C"),
       GSPRow(13, "Merseyside and Northern Wales", "SP Energy Networks", "0330 10 10 444", "MANW", "_D"),
       GSPRow(14, "West Midlands", "Western Power Distribution", "0800 096 3080", "MIDE", "_E"),
       GSPRow(15, "North Eastern England", "Northern Powergrid", "0800 011 3332", "NEEB", "_F"),
       GSPRow(16, "North Western England", "Electricity North West", "0800 048 1820", "NORW", "_G"),
       GSPRow(17, "Northern Scotland", "Scottish & Southern Electricity Networks", "0800 048 3516", "HYDE", "_P"),
       GSPRow(18, "Southern Scotland", "SP Energy Networks", "0330 10 10 444", "SPOW", "_N"),
       GSPRow(19, "South Eastern England", "UK Power Networks", "0800 029 4285", "SEEB", "_J"),
       GSPRow(20, "Southern England", "Scottish & Southern Electricity Networks", "0800 048 3516", "SOUT", "_H"),
       GSPRow(21, "Southern Wales", "Western Power Distribution", "0800 096 3080", "SWAE", "_K"),
       GSPRow(22, "South Western England", "Western Power Distribution", "0800 096 3080", "SWEB", "_L"),
       GSPRow(23, "Yorkshire", "Northern Powergrid", "0800 011 3332", "YELG", "_M") >>

PCsInit ==
    [k \in 0..8 |->
        CASE k = 0 -> "Half-hourly supply (import and export)"
          [] k = 1 -> "Domestic unrestricted"
          [] k = 2 -> "Domestic Economy meter of two or more rates"
          [] k = 3 -> "Non-domestic unrestricted"
          [] k = 4 -> "Non-domestic Economy 7"
          [] k = 5 -> "Non-domestic, with maximum demand (MD) recording capability and with load factor (LF) less than or equal to 20%"
          [] k = 6 -> "Non-domestic, with MD recording capability and with LF less than or equal to 30% and greater than 20%"
          [] k = 7 -> "Non-domestic, with MD recording capability and with LF less than or equal to 40% and greater than 30%"
          [] OTHER -> "Non-domestic, with MD recording capability and with LF greater than 40% (also all non-half-hourly export MSIDs)"]

\* GridSupplyPoint{}: the zero value
ZeroGSP == GSPRow(0, "", "", "", "", "")

\* MeterPoint{}: the zero value
ZeroMeterPoint == [GSP |-> ZeroGSP, MPAN |-> "", ProfileClass |-> 0]

(***************************************************************************)
(* Character classes and string helpers.                                   *)
(***************************************************************************)
Upper == {"A","B","C","D","E","F","G","H","I","J","K","L","M",
          "N","O","P","Q","R","S","T","U","V","W","X","Y","Z"}
Lower == {"a","b","c","d","e","f","g","h","i","j","k","l","m",
          "n","o","p","q","r","s","t","u","v","w","x","y","z"}
Digit == {"0","1","2","3","4","5","6","7","8","9"}
HexDigit == Digit \cup {"a","b","c","d","e","f","A","B","C","D","E","F"}
\* unicode.IsSpace, as far as the inputs of the model go
WhiteSpace == {" ", "\t", "\n"}
\* bytes below 0x20 and 0x7f, which net/url refuses anywhere in a URL
CtlChar == {"\t", "\n"}

\* strings.TrimSpace
RECURSIVE TrimLeft(_)
TrimLeft(s) ==
    IF s # <<>> /\ Head(s) \in WhiteSpace THEN TrimLeft(Tail(s)) ELSE s

RECURSIVE TrimRight(_)
TrimRight(s) ==
    IF s # <<>> /\ s[Len(s)] \in WhiteSpace
    THEN TrimRight(SubSeq(s, 1, Len(s) - 1)) ELSE s

\* the trimming of the left end only
TrimSpaceLeftOnly(s) == TrimLeft(s)

TrimSpace(s) == TrimRight(TrimLeft(s))

\* strings.ReplaceAll(s, " ", "")
RemoveSpaces(s) == SelectSeq(s, LAMBDA c : c # " ")

\* the concatenation of a sequence of sequences, in order
RECURSIVE Flatten(_)
Flatten(ss) == IF ss = <<>> THEN <<>> ELSE Head(ss) \o Flatten(Tail(ss))

(***************************************************************************)
(* checkPostcode: postcodeRegex.MatchString.  The expression is            *)
(*   ^(GIR 0AA) | ((O1|(O2|(O3|O4))) [0-9][A-Za-z]{2})$                    *)
(* (letters of GIR 0AA in either case): alternation binds loosest, so ^    *)
(* anchors only the first alternative and $ only the second.               *)
(***************************************************************************)
Letter == Upper \cup Lower
\* [A-Ha-hJ-Yj-y]
LetterHJY == Letter \ {"I", "i", "Z", "z"}
\* [AZa-z]: the letters A and Z and every lower-case letter
LetterAZaz == {"A", "Z"} \cup Lower

\* ^[Gg][Ii][Rr] 0[Aa]{2}, with anything after it
MatchGIR(s) ==
    /\ Len(s) >= 7
    /\ s[1] \in {"G", "g"} /\ s[2] \in {"I", "i"} /\ s[3] \in {"R", "r"}
    /\ s[4] = " " /\ s[5] = "0"
    /\ s[6] \in {"A", "a"} /\ s[7] \in {"A", "a"}

\* the outward code: one of the four alternatives matches the whole of w
MatchOutward(w) ==
    \/ /\ Len(w) \in {2, 3}                       \* [A-Za-z][0-9]{1,2}
       /\ w[1] \in Letter
       /\ \A i \in 2..Len(w) : w[i] \in Digit
    \/ /\ Len(w) \in {3, 4}                       \* [A-Za-z][A-Ha-hJ-Yj-y][0-9]{1,2}
       /\ w[1] \in Letter /\ w[2] \in LetterHJY
       /\ \A i \in 3..Len(w) : w[i] \in Digit
    \/ /\ Len(w) = 3                              \* [AZa-z][0-9][A-Za-z]
       /\ w[1] \in LetterAZaz /\ w[2] \in Digit /\ w[3] \in Letter
    \/ /\ Len(w) \in {3, 4}                       \* [A-Za-z][A-Ha-hJ-Yj-y][0-9]?[A-Za-z]
       /\ w[1] \in Letter /\ w[2] \in LetterHJY
       /\ (Len(w) = 4 => w[3] \in Digit)
       /\ w[Len(w)] \in Letter

\* (outward) [0-9][A-Za-z]{2}$ matching the whole of w
MatchOutIn(w) ==
    /\ Len(w) >= 6
    /\ w[Len(w) - 3] = " "
    /\ w[Len(w) - 2] \in Digit
    /\ w[Len(w) - 1] \in Letter /\ w[Len(w)] \in Letter
    /\ MatchOutward(SubSeq(w, 1, Len(w) - 4))

\* the second alternative may start anywhere and must end at the end
checkPostcode(postcode) ==
    \/ MatchGIR(postcode)
    \/ \E i \in 1..Len(postcode) : MatchOutIn(SubSeq(postcode, i, Len(postcode)))

(***************************************************************************)
(* net/url, as far as the library uses it.                                 *)
(***************************************************************************)
\* every "%" is followed by two hexadecimal digits, and no control character
ValidURLChars(s) ==
    /\ \A i \in 1..Len(s) : s[i] \notin CtlChar
    /\ \A i \in 1..Len(s) :
          s[i] = "%" => /\ i + 2 <= Len(s)
                        /\ s[i + 1] \in HexDigit /\ s[i + 2] \in HexDigit

\* the position of the first "?" of s, or 0
FirstQuery(s) ==
    IF \E i \in 1..Len(s) : s[i] = "?"
    THEN CHOOSE i \in 1..Len(s) : s[i] = "?" /\ \A j \in 1..(i - 1) : s[j] # "?"
    ELSE 0

\* the position of the first "/" of s, or Len(s) + 1
FirstSlash(s) ==
    IF \E i \in 1..Len(s) : s[i] = "/"
    THEN CHOOSE i \in 1..Len(s) : s[i] = "/" /\ \A j \in 1..(i - 1) : s[j] # "/"
    ELSE Len(s) + 1

\* url.Parse letting any character stand in the host
urlParseAnyHost(s) ==
    LET q    == FirstQuery(s)
        main == IF q = 0 THEN s ELSE SubSeq(s, 1, q - 1)
        abs  == Len(main) >= 2 /\ main[2] = "://"
        rest == IF abs THEN SubSeq(main, 3, Len(main)) ELSE main
        host == IF abs THEN SubSeq(rest, 1, FirstSlash(rest) - 1) ELSE <<>>
    IN  [ok       |-> /\ \A i \in 1..Len(s) : s[i] \notin CtlChar
                      /\ ValidURLChars(main),
         Scheme   |-> IF abs THEN <<main[1]>> ELSE <<>>,
         User     |-> <<>>,
         Host     |-> host,
         Path     |-> IF abs THEN SubSeq(rest, FirstSlash(rest), Len(rest)) ELSE main,
         RawQuery |-> IF q = 0 THEN <<>> ELSE SubSeq(s, q + 1, Len(s))]

\* url.Parse: <scheme> "://" <host> <path> or a relative path, each with an
\* optional "?" <query>.  The host runs to the first "/"; the path starts
\* there.  Parse refuses a control character anywhere, a bad escape outside
\* the query (the query is kept raw) and a space in the host.
urlParse(s) ==
    LET q    == FirstQuery(s)
        main == IF q = 0 THEN s ELSE SubSeq(s, 1, q - 1)
        abs  == Len(main) >= 2 /\ main[2] = "://"
        rest == IF abs THEN SubSeq(main, 3, Len(main)) ELSE main
        host == IF abs THEN SubSeq(rest, 1, FirstSlash(rest) - 1) ELSE <<>>
    IN  [ok       |-> /\ \A i \in 1..Len(s) : s[i] \notin CtlChar
                      /\ ValidURLChars(main)
                      /\ \A i \in 1..Len(host) : host[i] # " ",
         Scheme   |-> IF abs THEN <<main[1]>> ELSE <<>>,
         User     |-> <<>>,
         Host     |-> host,
         Path     |-> IF abs THEN SubSeq(rest, FirstSlash(rest), Len(rest)) ELSE main,
         RawQuery |-> IF q = 0 THEN <<>> ELSE SubSeq(s, q + 1, Len(s))]

\* URL.String: the scheme and "://", or "//" alone when there is no scheme
\* but a host or userinfo; then userinfo "@", host, path and "?" query
urlString(u) ==
    (IF u.Scheme # <<>> THEN u.Scheme \o <<"://">>
     ELSE IF u.Host # <<>> \/ u.User # <<>> THEN <<"//">> ELSE <<>>)
    \o (IF u.User # <<>> THEN u.User \o <<"@">> ELSE <<>>)
    \o u.Host \o u.Path
    \o (IF u.RawQuery # <<>> THEN <<"?">> \o u.RawQuery ELSE <<>>)

\* the escaping of one chunk inside the userinfo of a URL
EscapeUserChunk(c) ==
    CASE c = "@"  -> <<"%40">>
      [] c = "/"  -> <<"%2F">>
      [] c = "?"  -> <<"%3F">>
      [] c = ":"  -> <<"%3A">>
      [] c = " "  -> <<"%20">>
      [] c = "%"  -> <<"%25">>
      [] c = "\t" -> <<"%09">>
      [] c = "\n" -> <<"%0A">>
      [] OTHER    -> <<c>>

\* url.UserPassword(username, "").String(): "<escaped username>:"
UserPassword(username) ==
    Flatten([i \in 1..Len(username) |-> EscapeUserChunk(username[i])]) \o <<":">>

\* urlAddUsername with url.User(username): no password, so no ":"
urlAddUsernameNoPassword(URL, username) ==
    LET u == urlParse(URL)
    IN  IF ~u.ok
        THEN [val |-> <<>>, err |-> ErrNew("error parsing url")]
        ELSE [val |-> urlString([u EXCEPT !.User =
                         Flatten([i \in 1..Len(username) |-> EscapeUserChunk(username[i])])]),
              err |-> NoErr]

\* urlAddUsername(URL, username): [val, err]
urlAddUsername(URL, username) ==
    LET u == urlParse(URL)
    IN  IF ~u.ok
        THEN [val |-> <<>>, err |-> ErrNew("error parsing url")]
        ELSE [val |-> urlString([u EXCEPT !.User = UserPassword(username)]),
              err |-> NoErr]

(***************************************************************************)
(* NewClient(APIkey, httpClient): [client, err]                            *)
(***************************************************************************)
NilClient == [nil |-> TRUE]

\* NewClient testing the key as given, without strings.TrimSpace
NewClientNoTrim(APIkey, httpClient) ==
    LET key == APIkey
        r   == urlAddUsername(baseURL, key)
    IN  IF Len(key) = 0
        THEN [client |-> NilClient, err |-> ErrNew("API key should not be empty")]
        ELSE IF r.err # NoErr
        THEN [client |-> NilClient,
              err |-> ErrWrap("unable to add username to url", r.err)]
        ELSE [client |-> [nil |-> FALSE, URL |-> r.val, httpClient |-> httpClient],
              err |-> NoErr]

NewClient(APIkey, httpClient) ==
    LET key == TrimSpace(APIkey)
        r   == urlAddUsername(baseURL, key)
    IN  IF Len(key) = 0
        THEN [client |-> NilClient, err |-> ErrNew("API key should not be empty")]
        ELSE IF r.err # NoErr
        THEN [client |-> NilClient,
              err |-> ErrWrap("unable to add username to url", r.err)]
        ELSE [client |-> [nil |-> FALSE, URL |-> r.val, httpClient |-> httpClient],
              err |-> NoErr]

(***************************************************************************)
(* The constructor that takes the base URL,                                *)
(* NewClient(baseURL, APIkey, httpClient): [client, err], as its test      *)
(* describes it: the key embedded in the base URL by urlAddUsername and    *)
(* the slashes at the end of the result removed.                           *)
(***************************************************************************)
\* s without the "/" chunks at its end
RECURSIVE TrimSlashes(_)
TrimSlashes(s) ==
    IF s # <<>> /\ s[Len(s)] = "/" THEN TrimSlashes(SubSeq(s, 1, Len(s) - 1)) ELSE s

NewClientBaseURL(base, APIkey, httpClient) ==
    LET key == TrimSpace(APIkey)
        r   == urlAddUsername(base, key)
    IN  IF Len(key) = 0
        THEN [client |-> NilClient, err |-> ErrNew("API key should not be empty")]
        ELSE IF r.err # NoErr
        THEN [client |-> NilClient,
              err |-> ErrWrap("unable to add username to url", r.err)]
        ELSE [client |-> [nil |-> FALSE, baseURL |-> TrimSlashes(r.val),
                          httpClient |-> httpClient],
              err |-> NoErr]

(***************************************************************************)
(* The transport (c.httpClient.Get) and what it answers.  A response is    *)
(* [fail, status, body]: fail is a transport failure (Get returns an       *)
(* error, the other fields are then unused); body is what the JSON decoder *)
(* makes of the response body for the target of the calling operation:     *)
(* BadBody when it does not decode, else [ok |-> TRUE, v |-> the decoded   *)
(* value] (absent fields decode to their zero values).                     *)
(***************************************************************************)
BadBody == [ok |-> FALSE]
Decoded(v) == [ok |-> TRUE, v |-> v]

TransportFail == [fail |-> TRUE, status |-> 0, body |-> BadBody]

\* the statuses the service of the model answers with besides 200
OtherStatus == {201, 403}

\* every response for an operation whose decodable bodies are vs;
\* sample is one of them, sent along with the statuses other than 200
Responses(vs, sample) ==
    {TransportFail}
    \cup {[fail |-> FALSE, status |-> StatusOK, body |-> b] :
              b \in {BadBody} \cup {Decoded(v) : v \in vs}}
    \cup {[fail |-> FALSE, status |-> st, body |-> b] :
              st \in OtherStatus, b \in {BadBody, Decoded(sample)}}

\* all sequences over S of length at most n
SeqUpTo(S, n) == UNION {[1..k -> S] : k \in 0..n}

(***************************************************************************)
(* Client.do(path, v): one GET of <c.URL>/<path>, then the status check,   *)
(* then the decoding.                                                      *)
(***************************************************************************)
\* do passing a path that is already a full URL to httpClient.Get as given
doURLAsGiven(c, path) ==
    IF Len(path) >= 2 /\ path[2] = "://" THEN path ELSE c.URL \o <<"/">> \o path

\* fmt.Sprintf("%s/%s", c.URL, path): the URL do passes to httpClient.Get
doURL(c, path) == c.URL \o <<"/">> \o path

\* do with the body decoded before the status is looked at
doDecodeFirst(resp) ==
    IF resp.fail
    THEN [err |-> ErrWrap("http get error", <<"transport failure">>), decoded |-> FALSE]
    ELSE IF ~resp.body.ok
    THEN [err |-> ErrWrap("unable to unmarshal json", <<"decode failure">>),
          decoded |-> FALSE]
    ELSE IF resp.status # StatusOK
    THEN [err |-> <<"http error - code", ToString(resp.status), "received">>,
          decoded |-> FALSE]
    ELSE [err |-> NoErr, decoded |-> TRUE]

\* the error do returns for a response, and the value it decoded into v
do(resp) ==
    IF resp.fail
    THEN [err |-> ErrWrap("http get error", <<"transport failure">>), decoded |-> FALSE]
    ELSE IF resp.status # StatusOK
    THEN [err |-> <<"http error - code", ToString(resp.status), "received">>,
          decoded |-> FALSE]
    ELSE IF ~resp.body.ok
    THEN [err |-> ErrWrap("unable to unmarshal json", <<"decode failure">>),
          decoded |-> FALSE]
    ELSE [err |-> NoErr, decoded |-> TRUE]

(***************************************************************************)
(* ListProducts and listProductsPage.                                      *)
(***************************************************************************)
\* listProductsPage, after do: (data.Results, data.Next, nil) or (nil, "", err)
listProductsPage(resp) ==
    LET d == do(resp)
    IN  IF d.err # NoErr
        THEN [products |-> <<>>, next |-> <<>>,
              err |-> ErrWrap("error retrieving", d.err)]
        ELSE [products |-> resp.body.v.results, next |-> resp.body.v.next,
              err |-> NoErr]

\* ListProducts' first URL: fmt.Sprintf("%s/products/", c.URL)
ListProductsURL(c) == c.URL \o <<"/products/">>

\* the loop with each page put in front of the products gathered so far
ListProductsLoopPrepend(products, resp) ==
    LET page == listProductsPage(resp)
        all  == page.products \o products
    IN  IF page.err # NoErr
        THEN [URL |-> page.next, products |-> products, return |-> TRUE,
              val |-> <<>>,
              err |-> ErrWrap("error retrieving products page", page.err)]
        ELSE IF page.next = <<>>
        THEN [URL |-> page.next, products |-> all, return |-> TRUE,
              val |-> all, err |-> NoErr]
        ELSE [URL |-> page.next, products |-> all, return |-> FALSE,
              val |-> <<>>, err |-> NoErr]

\* the loop returning what it has gathered along with the error
ListProductsLoopPartial(products, resp) ==
    LET page == listProductsPage(resp)
        all  == products \o page.products
    IN  IF page.err # NoErr
        THEN [URL |-> page.next, products |-> products, return |-> TRUE,
              val |-> products,
              err |-> ErrWrap("error retrieving products page", page.err)]
        ELSE IF page.next = <<>>
        THEN [URL |-> page.next, products |-> all, return |-> TRUE,
              val |-> all, err |-> NoErr]
        ELSE [URL |-> page.next, products |-> all, return |-> FALSE,
              val |-> <<>>, err |-> NoErr]

\* the loop leaving on a non-empty next instead of an empty one
ListProductsLoopInverted(products, resp) ==
    LET page == listProductsPage(resp)
        all  == products \o page.products
    IN  IF page.err # NoErr
        THEN [URL |-> page.next, products |-> products, return |-> TRUE,
              val |-> <<>>,
              err |-> ErrWrap("error retrieving products page", page.err)]
        ELSE IF page.next # <<>>
        THEN [URL |-> page.next, products |-> all, return |-> TRUE,
              val |-> all, err |-> NoErr]
        ELSE [URL |-> page.next, products |-> all, return |-> FALSE,
              val |-> <<>>, err |-> NoErr]

\* one turn of ListProducts' loop once the page has been fetched: the new URL
\* and products, whether the function returns, and what it returns
ListProductsLoop(products, resp) ==
    LET page == listProductsPage(resp)
        all  == products \o page.products
    IN  IF page.err # NoErr
        THEN [URL |-> page.next, products |-> products, return |-> TRUE,
              val |-> <<>>,
              err |-> ErrWrap("error retrieving products page", page.err)]
        ELSE IF page.next = <<>>
        THEN [URL |-> page.next, products |-> all, return |-> TRUE,
              val |-> all, err |-> NoErr]
        ELSE [URL |-> page.next, products |-> all, return |-> FALSE,
              val |-> <<>>, err |-> NoErr]

(***************************************************************************)
(* GetMeterPoint, GetGridSupplyPoint, GetProduct, GetMeterConsumption.     *)
(***************************************************************************)
\* the scan stopping one row short of the end of the table
FindGSPSkipLast(tbl, id) ==
    IF \E i \in 1..(Len(tbl) - 1) : tbl[i].GSPGroupID = id
    THEN CHOOSE i \in 1..(Len(tbl) - 1) :
            /\ tbl[i].GSPGroupID = id
            /\ \A j \in 1..(i - 1) : tbl[j].GSPGroupID # id
    ELSE 0

\* for _, gsp := range GSPs { if gsp.GSPGroupID == id ... }: the index of
\* the first row with that group id, or 0
FindGSP(tbl, id) ==
    IF \E i \in 1..Len(tbl) : tbl[i].GSPGroupID = id
    THEN CHOOSE i \in 1..Len(tbl) :
            /\ tbl[i].GSPGroupID = id
            /\ \A j \in 1..(i - 1) : tbl[j].GSPGroupID # id
    ELSE 0

\* fmt.Sprintf("electricity-meter-points/%s/", mpan)
GetMeterPointPath(mpan) == <<"electricity-meter-points/">> \o mpan \o <<"/">>

\* GetMeterPoint without the assignment mPoint.GSP = gsp
GetMeterPointResultNoGSP(tbl, resp) ==
    LET d    == do(resp)
        data == resp.body.v
        i    == FindGSP(tbl, data.gsp)
    IN  IF d.err # NoErr
        THEN [val |-> ZeroMeterPoint,
              err |-> ErrWrap("error retrieving meterpoint", d.err)]
        ELSE IF i # 0
        THEN [val |-> [GSP |-> ZeroGSP, MPAN |-> data.mpan,
                       ProfileClass |-> data.profile_class],
              err |-> NoErr]
        ELSE [val |-> ZeroMeterPoint, err |-> ErrNew("no grid supply point found")]

\* GetMeterPoint returning mPoint as filled so far when no row matches
GetMeterPointResultPartial(tbl, resp) ==
    LET d    == do(resp)
        data == resp.body.v
        i    == FindGSP(tbl, data.gsp)
    IN  IF d.err # NoErr
        THEN [val |-> ZeroMeterPoint,
              err |-> ErrWrap("error retrieving meterpoint", d.err)]
        ELSE IF i # 0
        THEN [val |-> [GSP |-> tbl[i], MPAN |-> data.mpan,
                       ProfileClass |-> data.profile_class],
              err |-> NoErr]
        ELSE [val |-> [GSP |-> ZeroGSP, MPAN |-> data.mpan,
                       ProfileClass |-> data.profile_class],
              err |-> ErrNew("no grid supply point found")]

\* GetMeterPoint once do has returned
GetMeterPointResult(tbl, resp) ==
    LET d    == do(resp)
        data == resp.body.v
        i    == FindGSP(tbl, data.gsp)
    IN  IF d.err # NoErr
        THEN [val |-> ZeroMeterPoint,
              err |-> ErrWrap("error retrieving meterpoint", d.err)]
        ELSE IF i # 0
        THEN [val |-> [GSP |-> tbl[i], MPAN |-> data.mpan,
                       ProfileClass |-> data.profile_class],
              err |-> NoErr]
        ELSE [val |-> ZeroMeterPoint, err |-> ErrNew("no grid supply point found")]

\* fmt.Sprintf("industry/grid-supply-points/?postcode=%s", postcode) with the
\* spaces of the postcode removed
GetGridSupplyPointPath(postcode) ==
    <<"industry/grid-supply-points/", "?", "postcode", "=">> \o RemoveSpaces(postcode)

\* GetGridSupplyPoint resolving the first result before counting the results
GetGridSupplyPointResultLookupFirst(tbl, resp) ==
    LET d    == do(resp)
        data == resp.body.v
        i    == FindGSP(tbl, data.results[1])
    IN  IF d.err # NoErr
        THEN [val |-> ZeroGSP,
              err |-> ErrWrap("error retrieving grid supply point", d.err)]
        ELSE IF Len(data.results) >= 1 /\ i = 0
        THEN [val |-> ZeroGSP, err |-> ErrNew("unknown grid supply point")]
        ELSE IF Len(data.results) # 1
        THEN [val |-> ZeroGSP, err |-> ErrNew("more than one supply point received")]
        ELSE [val |-> tbl[i], err |-> NoErr]

\* GetGridSupplyPoint once do has returned
GetGridSupplyPointResult(tbl, resp) ==
    LET d    == do(resp)
        data == resp.body.v
        i    == FindGSP(tbl, data.results[1])
    IN  IF d.err # NoErr
        THEN [val |-> ZeroGSP,
              err |-> ErrWrap("error retrieving grid supply point", d.err)]
        ELSE IF Len(data.results) # 1
        THEN [val |-> ZeroGSP, err |-> ErrNew("more than one supply point received")]
        ELSE IF i # 0
        THEN [val |-> tbl[i], err |-> NoErr]
        ELSE [val |-> ZeroGSP, err |-> ErrNew("unknown grid supply point")]

\* Product{}: the zero value
ZeroProduct == [Code |-> "", IsGreen |-> FALSE]

\* fmt.Sprintf("products/%s/", productCode)
GetProductPath(productCode) == <<"products/">> \o productCode \o <<"/">>

\* GetProduct once do has returned
GetProductResult(resp) ==
    LET d == do(resp)
    IN  IF d.err # NoErr
        THEN [val |-> ZeroProduct,
              err |-> ErrWrap("error retrieving the product", d.err)]
        ELSE [val |-> resp.body.v, err |-> NoErr]

\* time.Time: zero is IsZero(); wall is the clock reading in the value's own
\* zone, laid out as 2006-01-02T15:04:05.000; off is the zone's offset
ZeroTime == [zero |-> TRUE, wall |-> <<"0001-01-01T00", ":", "00", ":", "00.000">>, off |-> 0]

\* ConsumptionOption{}: the zero value
ZeroOption ==
    [From |-> ZeroTime, To |-> ZeroTime, PageSize |-> 0, OrderBy |-> <<>>, GroupBy |-> <<>>]

\* t.Format(iso8601): the layout ends in the literal text +0000
FormatISO8601(t) == t.wall \o <<"+", "0000">>

\* url.QueryEscape of one chunk
QueryEscapeChunk(c) ==
    CASE c = " " -> <<"+">>
      [] c = "+" -> <<"%2B">>
      [] c = ":" -> <<"%3A">>
      [] c = "/" -> <<"%2F">>
      [] c = "?" -> <<"%3F">>
      [] c = "&" -> <<"%26">>
      [] c = "=" -> <<"%3D">>
      [] c = "%" -> <<"%25">>
      [] c = "@" -> <<"%40">>
      [] OTHER   -> <<c>>

QueryEscape(s) == Flatten([i \in 1..Len(s) |-> QueryEscapeChunk(s[i])])

\* url.Values.Encode of a list of <<key, value>> pairs already in key order:
\* key=value joined by "&"
RECURSIVE Encode(_)
Encode(kvs) ==
    IF kvs = <<>> THEN <<>>
    ELSE <<kvs[1][1], "=">> \o QueryEscape(kvs[1][2])
         \o (IF Len(kvs) > 1 THEN <<"&">> ELSE <<>>) \o Encode(Tail(kvs))

\* the parameters with period_to formatted from options.From
ConsumptionQueryToFromFrom(options) ==
    (IF options.GroupBy # <<>> THEN << <<"group_by", options.GroupBy>> >> ELSE <<>>)
    \o (IF options.OrderBy # <<>> THEN << <<"order_by", options.OrderBy>> >> ELSE <<>>)
    \o (IF options.PageSize # 0
        THEN << <<"page_size", <<ToString(options.PageSize)>> >> >> ELSE <<>>)
    \o (IF ~options.From.zero
        THEN << <<"period_from", FormatISO8601(options.From)>> >> ELSE <<>>)
    \o (IF ~options.To.zero
        THEN << <<"period_to", FormatISO8601(options.From)>> >> ELSE <<>>)

\* the parameters GetMeterConsumption adds for the options, in the order
\* Encode sorts them (by key)
ConsumptionQuery(options) ==
    (IF options.GroupBy # <<>> THEN << <<"group_by", options.GroupBy>> >> ELSE <<>>)
    \o (IF options.OrderBy # <<>> THEN << <<"order_by", options.OrderBy>> >> ELSE <<>>)
    \o (IF options.PageSize # 0
        THEN << <<"page_size", <<ToString(options.PageSize)>> >> >> ELSE <<>>)
    \o (IF ~options.From.zero
        THEN << <<"period_from", FormatISO8601(options.From)>> >> ELSE <<>>)
    \o (IF ~options.To.zero
        THEN << <<"period_to", FormatISO8601(options.To)>> >> ELSE <<>>)

\* GetMeterConsumption up to the call of do: the parse error, or the path
\* handed to do (mpan and serialNo hold no "?" or "#", so apiURL.Query() is
\* empty before the options are added)
GetMeterConsumptionPath(mpan, serialNo, options) ==
    LET apiURL == urlParse(<<"electricity-meter-points/">> \o mpan \o <<"/meters/">>
                           \o serialNo \o <<"/consumption/">>)
        withQ  == IF options # ZeroOption
                  THEN [apiURL EXCEPT !.RawQuery = Encode(ConsumptionQuery(options))]
                  ELSE apiURL
    IN  IF ~apiURL.ok
        THEN [path |-> <<>>,
              err |-> ErrWrap("unable to parse request url", <<"invalid URL escape">>)]
        ELSE [path |-> urlString(withQ), err |-> NoErr]

\* GetMeterConsumption once do has returned
GetMeterConsumptionResult(resp) ==
    LET d == do(resp)
    IN  IF d.err # NoErr
        THEN [val |-> <<>>, err |-> ErrWrap("error retrieving meter consumption", d.err)]
        ELSE [val |-> resp.body.v.results, err |-> NoErr]

(***************************************************************************)
(* The inputs of the model.                                                *)
(***************************************************************************)
APIkeys == {<<"fakeapikey">>, <<" ", "key", "\t">>, <<>>, <<" ">>, <<"\t", " ", "\n">>}
Handles == {"h1", "h2"}

MPANs == {<<"0123456789">>, <<>>, <<"%", "z", "z">>}
Serials == {<<"0123456789">>}
ProductCodes == {<<"VAR-17-01-11">>, <<>>}

Postcodes ==
    { <<"S","W","1","A"," ","1","A","A">>,
      <<"e","2","0"," ","2","s","t">>,
      <<"S","W","1","A","1","A","A">>,
      <<"x","&","E","2","0"," ","2","S","T">>,
      <<"i","n","v","a","l","i","d">> }

Times ==
    { ZeroTime,
      [zero |-> FALSE, wall |-> <<"2020-01-02T12", ":", "23", ":", "34.000">>, off |-> 0],
      [zero |-> FALSE, wall |-> <<"2020-01-03T12", ":", "23", ":", "34.000">>, off |-> 1] }

Options ==
    [From : Times, To : Times, PageSize : {0, 10},
     OrderBy : {<<>>, <<"asc">>}, GroupBy : {<<>>, <<"hour">>}]

\* the URLs and user names handed to urlAddUsername
URLs ==
    { <<"http", "://", "www.google.com", "/">>,
      <<"https", "://", "www.google.com", "/">>,
      <<"https", "://", "localhost", "/", "/">>,
      <<"https", "://", "localhost">>,
      <<"10928301", "#", "#", "#", "#", "$", "$", "$", "%", "%">>,
      <<"ftp", "://", "not", " ", "a", " ", "real", " ", "url">>,
      <<"products", "/">> }
Usernames == {<<"user">>, <<"test", "@", "key">>}

\* the strings handed to checkPostcode
PostcodeStrings ==
    Postcodes \cup
    { <<"s","W","1","A"," ","1","a","A">>,
      <<"E","2","0"," ","2","S","T">>,
      <<"W","1","A"," ","1","A","A">>,
      <<"w","1","a"," ","1","a","a">>,
      <<"G","I","R"," ","0","A","A">>,
      <<"G","I","R"," ","0","A","A","x">>,
      <<"x","x","E","2","0"," ","2","S","T">>,
      <<"E","2","0"," ","2","S","T","x">>,
      <<"t","h","i","s"," ","i","s"," ","n","o","t"," ","a"," ",
        "p","o","s","t","c","o","d","e">> }

\* what the service sends
Products == {[Code |-> "P1", IsGreen |-> FALSE], [Code |-> "P2", IsGreen |-> TRUE]}
NextURLs ==
    { <<"https", "://", "api.octopus.energy", "/", "v1", "/products/", "?", "page=2">>,
      <<"https", "://", "api.octopus.energy", "/", "v1", "/products/", "?", "page=3">> }
GroupIDs == {"_A", "_M", "_Z"}
Readings ==
    { [Value |-> 1, IntervalStart |-> "2020-01-02T00:00", IntervalEnd |-> "2020-01-02T00:30"],
      [Value |-> 2, IntervalStart |-> "2020-01-02T00:30", IntervalEnd |-> "2020-01-02T01:00"] }

\* productJSON as decoded; last: the service has no further page to name
ProductPages(last) ==
    [results : SeqUpTo(Products, MaxBatch),
     next : IF last THEN {<<>>} ELSE {<<>>} \cup NextURLs]
MeterPointBodies ==
    [gsp : GroupIDs \cup {""}, mpan : {"0123456789", "9"}, profile_class : {1, 9}]
GSPBodies == [results : SeqUpTo(GroupIDs, MaxResults)]
ConsumptionBodies == [results : SeqUpTo(Readings, MaxReadings), next : {<<>>} \cup NextURLs]

(***************************************************************************)
(* The state.                                                              *)
(***************************************************************************)
VARIABLES
    newArg,    \* the arguments NewClient was called with
    client,    \* the *Client NewClient returned (NilClient when it failed)
    newErr,    \* the error NewClient returned
    GSPs,      \* the package variable GSPs
    PCs,       \* the package variable PCs
    active,    \* the goroutines that call into the library
    chain,     \* the service's next links: "finite", or "cyclic" (never empty)
    pc,        \* per goroutine: "idle", "wait" (inside httpClient.Get), "done"
    op,        \* per goroutine: the operation it is in, "" when idle
    arg,       \* per goroutine: the arguments of that operation
    URL,       \* per goroutine: ListProducts' local variable URL
    products,  \* per goroutine: ListProducts' local variable products
    ret,       \* per goroutine: what the call returned: [val, err], or
               \* [client, err] of a constructor, or [accepted] of checkPostcode
    gets,      \* per goroutine: the URLs passed to httpClient.Get by this call
    resps      \* per goroutine: the responses this call received, in order

vars == <<newArg, client, newErr, GSPs, PCs, active, chain, pc, op, arg, URL, products, ret, gets, resps>>

globals == <<newArg, client, newErr, GSPs, PCs, active, chain>>

NoArg == [none |-> TRUE]
NoRet == [none |-> TRUE]

\* the state after NewClient(key, h) for a key of keys, with the goroutines
\* of callers calling into the library and a service whose next links are
\* as links says
InitWith(keys, callers, links) ==
    /\ \E key \in keys, h \in Handles :
          LET r == NewClient(key, h)
          IN  /\ newArg = [APIkey |-> key, httpClient |-> h]
              /\ client = r.client /\ newErr = r.err
    /\ GSPs = GSPsInit
    /\ PCs = PCsInit
    /\ active = callers
    /\ chain = links
    /\ pc = [t \in Threads |-> "idle"]
    /\ op = [t \in Threads |-> ""]
    /\ arg = [t \in Threads |-> NoArg]
    /\ URL = [t \in Threads |-> <<>>]
    /\ products = [t \in Threads |-> <<>>]
    /\ ret = [t \in Threads |-> NoRet]
    /\ gets = [t \in Threads |-> <<>>]
    /\ resps = [t \in Threads |-> <<>>]

\* one goroutine calls into the library
Init == InitWith(APIkeys, {1}, "finite")

\* both goroutines call into the library, on the client of one key
InitConc == InitWith({<<"fakeapikey">>}, Threads, "finite")

\* one goroutine calls, and the service's next links go round in a cycle
InitLoop == InitWith({<<"fakeapikey">>}, {1}, "cyclic")

\* the inputs and answers explored: all of them for one caller, a few
\* while two goroutines call at once or the service's links are cyclic
Pick(all, few) == IF active = Threads \/ chain = "cyclic" THEN few ELSE all

\* a transport failure or a 200 answer with one of the bodies vs
FewResponses(vs) ==
    {TransportFail}
    \cup {[fail |-> FALSE, status |-> StatusOK, body |-> Decoded(v)] : v \in vs}

\* the pages of a service whose next links go round: the page after
\* .../?page=2 is .../?page=3 and the page after that .../?page=2 again; every
\* fetch succeeds.  The model follows a call for LoopGets GETs.
CyclicResponses(n) ==
    IF n >= LoopGets THEN {}
    ELSE {[fail |-> FALSE, status |-> StatusOK,
           body |-> Decoded([results |-> r,
                             next |-> <<"https", "://", "api.octopus.energy", "/", "v1",
                                        "/products/", "?",
                                        IF n % 2 = 1 THEN "page=2" ELSE "page=3">>])] :
             r \in {<<>>, <<[Code |-> "P1", IsGreen |-> FALSE]>>}}

\* what the service answers to the n-th GET of a ListProducts call
ProductResponses(n) ==
    IF chain = "cyclic" THEN CyclicResponses(n)
    ELSE Pick(Responses(ProductPages(n >= MaxPages), [results |-> <<>>, next |-> <<>>]),
              FewResponses([results : {<<[Code |-> "P1", IsGreen |-> FALSE]>>},
                            next : IF n >= ConcPages THEN {<<>>}
                                   ELSE {<<>>, <<"https", "://", "api.octopus.energy", "/", "v1",
                                                 "/products/", "?", "page=2">>}]))

\* goroutine t may start an operation on the client
CanCall(t) == t \in active /\ pc[t] = "idle" /\ ~client.nil

\* t starts operation o with arguments a and calls do(path)
StartGet(t, o, a, path) ==
    /\ pc' = [pc EXCEPT ![t] = "wait"]
    /\ op' = [op EXCEPT ![t] = o]
    /\ arg' = [arg EXCEPT ![t] = a]
    /\ gets' = [gets EXCEPT ![t] = <<doURL(client, path)>>]
    /\ resps' = [resps EXCEPT ![t] = <<>>]
    /\ ret' = [ret EXCEPT ![t] = NoRet]

\* t's operation o returns r without having called do
ReturnEarly(t, o, a, r) ==
    /\ pc' = [pc EXCEPT ![t] = "done"]
    /\ op' = [op EXCEPT ![t] = o]
    /\ arg' = [arg EXCEPT ![t] = a]
    /\ gets' = [gets EXCEPT ![t] = <<>>]
    /\ resps' = [resps EXCEPT ![t] = <<>>]
    /\ ret' = [ret EXCEPT ![t] = r]

\* an operation that asks again, once, when its request failed
FinishRetry(t, resp, r) ==
    IF r.err # NoErr /\ Len(gets[t]) < 2
    THEN /\ gets' = [gets EXCEPT ![t] = Append(@, @[1])]
         /\ resps' = [resps EXCEPT ![t] = Append(@, resp)]
         /\ UNCHANGED <<pc, op, arg, ret>>
    ELSE /\ pc' = [pc EXCEPT ![t] = "done"]
         /\ resps' = [resps EXCEPT ![t] = Append(@, resp)]
         /\ ret' = [ret EXCEPT ![t] = r]
         /\ UNCHANGED <<op, arg, gets>>

\* t's operation receives resp and returns r
Finish(t, resp, r) ==
    /\ pc' = [pc EXCEPT ![t] = "done"]
    /\ resps' = [resps EXCEPT ![t] = Append(@, resp)]
    /\ ret' = [ret EXCEPT ![t] = r]
    /\ UNCHANGED <<op, arg, gets>>

Waiting(t, o) == t \in active /\ pc[t] = "wait" /\ op[t] = o

(***************************************************************************)
(* ListProducts.                                                           *)
(***************************************************************************)
ListProductsCall(t) ==
    /\ CanCall(t)
    /\ StartGet(t, "ListProducts", NoArg, ListProductsURL(client))
    /\ URL' = [URL EXCEPT ![t] = ListProductsURL(client)]
    /\ products' = [products EXCEPT ![t] = <<>>]
    /\ UNCHANGED globals

\* ListProducts asking once more for a page whose fetch failed
ListProductsPageRetry(t) ==
    /\ Waiting(t, "ListProducts")
    /\ \E resp \in ProductResponses(Len(gets[t])) :
          LET l == ListProductsLoop(products[t], resp)
          IN  IF l.err # NoErr /\ Len(gets[t]) = Len(resps[t]) + 1 /\ Len(resps[t]) < 2
                 /\ (resps[t] = <<>> \/ do(resps[t][Len(resps[t])]).err = NoErr)
              THEN /\ gets' = [gets EXCEPT ![t] = Append(@, @[Len(@)])]
                   /\ resps' = [resps EXCEPT ![t] = Append(@, resp)]
                   /\ UNCHANGED <<URL, products, pc, ret>>
              ELSE /\ URL' = [URL EXCEPT ![t] = l.URL]
                   /\ products' = [products EXCEPT ![t] = l.products]
                   /\ resps' = [resps EXCEPT ![t] = Append(@, resp)]
                   /\ IF l.return
                      THEN /\ pc' = [pc EXCEPT ![t] = "done"]
                           /\ ret' = [ret EXCEPT ![t] = [val |-> l.val, err |-> l.err]]
                           /\ UNCHANGED gets
                      ELSE /\ gets' = [gets EXCEPT ![t] = Append(@, doURL(client, l.URL))]
                           /\ UNCHANGED <<pc, ret>>
    /\ UNCHANGED <<op, arg>>
    /\ UNCHANGED globals

\* ListProducts with a visited-URL guard: it returns what it has gathered
\* when the next page is one it has already asked for
ListProductsPageGuarded(t) ==
    /\ Waiting(t, "ListProducts")
    /\ \E resp \in ProductResponses(Len(gets[t])) :
          LET l == ListProductsLoop(products[t], resp)
              seen == \E i \in 1..Len(gets[t]) : gets[t][i] = doURL(client, l.URL)
          IN  /\ URL' = [URL EXCEPT ![t] = l.URL]
              /\ products' = [products EXCEPT ![t] = l.products]
              /\ resps' = [resps EXCEPT ![t] = Append(@, resp)]
              /\ IF l.return \/ seen
                 THEN /\ pc' = [pc EXCEPT ![t] = "done"]
                      /\ ret' = [ret EXCEPT ![t] =
                                   IF l.return THEN [val |-> l.val, err |-> l.err]
                                   ELSE [val |-> l.products, err |-> NoErr]]
                      /\ UNCHANGED gets
                 ELSE /\ gets' = [gets EXCEPT ![t] = Append(@, doURL(client, l.URL))]
                      /\ UNCHANGED <<pc, ret>>
    /\ UNCHANGED <<op, arg>>
    /\ UNCHANGED globals

\* ListProducts gathering into one products list shared by all calls (that
\* of goroutine 1) instead of its local variable
ListProductsPageShared(t) ==
    /\ Waiting(t, "ListProducts")
    /\ \E resp \in ProductResponses(Len(gets[t])) :
          LET l == ListProductsLoop(products[1], resp)
          IN  /\ URL' = [URL EXCEPT ![t] = l.URL]
              /\ products' = [products EXCEPT ![1] = l.products]
              /\ resps' = [resps EXCEPT ![t] = Append(@, resp)]
              /\ IF l.return
                 THEN /\ pc' = [pc EXCEPT ![t] = "done"]
                      /\ ret' = [ret EXCEPT ![t] = [val |-> l.val, err |-> l.err]]
                      /\ UNCHANGED gets
                 ELSE /\ gets' = [gets EXCEPT ![t] = Append(@, doURL(client, l.URL))]
                      /\ UNCHANGED <<pc, ret>>
    /\ UNCHANGED <<op, arg>>
    /\ UNCHANGED globals

\* ListProducts keeping the URL of the next page in the client
ListProductsPageStoresURL(t) ==
    /\ Waiting(t, "ListProducts")
    /\ \E resp \in ProductResponses(Len(gets[t])) :
          LET l == ListProductsLoop(products[t], resp)
          IN  /\ URL' = [URL EXCEPT ![t] = l.URL]
              /\ products' = [products EXCEPT ![t] = l.products]
              /\ resps' = [resps EXCEPT ![t] = Append(@, resp)]
              /\ client' = IF l.URL # <<>> THEN [client EXCEPT !.URL = l.URL] ELSE client
              /\ IF l.return
                 THEN /\ pc' = [pc EXCEPT ![t] = "done"]
                      /\ ret' = [ret EXCEPT ![t] = [val |-> l.val, err |-> l.err]]
                      /\ UNCHANGED gets
                 ELSE /\ gets' = [gets EXCEPT ![t] = Append(@, doURL(client, l.URL))]
                      /\ UNCHANGED <<pc, ret>>
    /\ UNCHANGED <<op, arg>>
    /\ UNCHANGED <<newArg, newErr, GSPs, PCs, active, chain>>

\* the pending page fetch completes; the loop body runs up to the next fetch
\* or to the return
ListProductsPage(t) ==
    /\ Waiting(t, "ListProducts")
    /\ \E resp \in ProductResponses(Len(gets[t])) :
          LET l == ListProductsLoop(products[t], resp)
          IN  /\ URL' = [URL EXCEPT ![t] = l.URL]
              /\ products' = [products EXCEPT ![t] = l.products]
              /\ resps' = [resps EXCEPT ![t] = Append(@, resp)]
              /\ IF l.return
                 THEN /\ pc' = [pc EXCEPT ![t] = "done"]
                      /\ ret' = [ret EXCEPT ![t] = [val |-> l.val, err |-> l.err]]
                      /\ UNCHANGED gets
                 ELSE /\ gets' = [gets EXCEPT ![t] = Append(@, doURL(client, l.URL))]
                      /\ UNCHANGED <<pc, ret>>
    /\ UNCHANGED <<op, arg>>
    /\ UNCHANGED globals

(***************************************************************************)
(* GetProduct.                                                             *)
(***************************************************************************)
GetProductCall(t) ==
    /\ CanCall(t)
    /\ \E code \in Pick(ProductCodes, {<<"VAR-17-01-11">>}) :
          StartGet(t, "GetProduct", [productCode |-> code], GetProductPath(code))
    /\ UNCHANGED <<URL, products>>
    /\ UNCHANGED globals

GetProductDone(t) ==
    /\ Waiting(t, "GetProduct")
    /\ \E resp \in Pick(Responses(Products, ZeroProduct),
                         FewResponses({[Code |-> "P2", IsGreen |-> TRUE]})) :
          Finish(t, resp, GetProductResult(resp))
    /\ UNCHANGED <<URL, products>>
    /\ UNCHANGED globals

(***************************************************************************)
(* GetMeterPoint.                                                          *)
(***************************************************************************)
GetMeterPointCall(t) ==
    /\ CanCall(t)
    /\ \E mpan \in Pick(MPANs, {<<"0123456789">>}) :
          StartGet(t, "GetMeterPoint", [mpan |-> mpan], GetMeterPointPath(mpan))
    /\ UNCHANGED <<URL, products>>
    /\ UNCHANGED globals

\* GetMeterPoint ranging over the table by reference and clearing the name
\* of the first row as it goes
GetMeterPointDoneWritesRow(t) ==
    /\ Waiting(t, "GetMeterPoint")
    /\ \E resp \in Pick(Responses(MeterPointBodies,
                                  [gsp |-> "_A", mpan |-> "0123456789", profile_class |-> 1]),
                         FewResponses({[gsp |-> "_M", mpan |-> "0123456789",
                                        profile_class |-> 1]})) :
          Finish(t, resp, GetMeterPointResult(GSPs, resp))
    /\ GSPs' = [GSPs EXCEPT ![1].Name = ""]
    /\ UNCHANGED <<URL, products>>
    /\ UNCHANGED <<newArg, client, newErr, PCs, active, chain>>

GetMeterPointDone(t) ==
    /\ Waiting(t, "GetMeterPoint")
    /\ \E resp \in Pick(Responses(MeterPointBodies,
                                  [gsp |-> "_A", mpan |-> "0123456789", profile_class |-> 1]),
                         FewResponses({[gsp |-> "_M", mpan |-> "0123456789",
                                        profile_class |-> 1]})) :
          Finish(t, resp, GetMeterPointResult(GSPs, resp))
    /\ UNCHANGED <<URL, products>>
    /\ UNCHANGED globals

(***************************************************************************)
(* GetGridSupplyPoint.                                                     *)
(***************************************************************************)
\* GetGridSupplyPoint sending the request whatever the validator says
GetGridSupplyPointCallNoCheck(t) ==
    /\ CanCall(t)
    /\ \E postcode \in Pick(Postcodes, {<<"e","2","0"," ","2","s","t">>}) :
          StartGet(t, "GetGridSupplyPoint", [postcode |-> postcode],
                   GetGridSupplyPointPath(postcode))
    /\ UNCHANGED <<URL, products>>
    /\ UNCHANGED globals

GetGridSupplyPointCall(t) ==
    /\ CanCall(t)
    /\ \E postcode \in Pick(Postcodes, {<<"e","2","0"," ","2","s","t">>}) :
          IF ~checkPostcode(postcode)
          THEN ReturnEarly(t, "GetGridSupplyPoint", [postcode |-> postcode],
                           [val |-> ZeroGSP,
                            err |-> ErrWrap("invalid postcode", postcode)])
          ELSE StartGet(t, "GetGridSupplyPoint", [postcode |-> postcode],
                        GetGridSupplyPointPath(postcode))
    /\ UNCHANGED <<URL, products>>
    /\ UNCHANGED globals

GetGridSupplyPointDone(t) ==
    /\ Waiting(t, "GetGridSupplyPoint")
    /\ \E resp \in Pick(Responses(GSPBodies, [results |-> <<"_A">>]),
                         FewResponses({[results |-> <<"_A">>]})) :
          Finish(t, resp, GetGridSupplyPointResult(GSPs, resp))
    /\ UNCHANGED <<URL, products>>
    /\ UNCHANGED globals

(***************************************************************************)
(* GetMeterConsumption.                                                    *)
(***************************************************************************)
GetMeterConsumptionCall(t) ==
    /\ CanCall(t)
    /\ \E mpan \in Pick(MPANs, {<<"0123456789">>}), serialNo \in Serials,
          options \in Pick(Options, {ZeroOption}) :
          LET a == [mpan |-> mpan, serialNo |-> serialNo, options |-> options]
              r == GetMeterConsumptionPath(mpan, serialNo, options)
          IN  IF r.err # NoErr
              THEN ReturnEarly(t, "GetMeterConsumption", a, [val |-> <<>>, err |-> r.err])
              ELSE StartGet(t, "GetMeterConsumption", a, r.path)
    /\ UNCHANGED <<URL, products>>
    /\ UNCHANGED globals

\* GetMeterConsumption going on to the page the answer names as next
GetMeterConsumptionDoneFollowNext(t) ==
    /\ Waiting(t, "GetMeterConsumption")
    /\ \E resp \in Pick(Responses(ConsumptionBodies, [results |-> <<>>, next |-> <<>>]),
                         FewResponses({[results |-> <<>>, next |-> <<>>]})) :
          IF do(resp).err = NoErr /\ resp.body.v.next # <<>> /\ Len(gets[t]) < 2
          THEN /\ gets' = [gets EXCEPT ![t] = Append(@, resp.body.v.next)]
               /\ resps' = [resps EXCEPT ![t] = Append(@, resp)]
               /\ UNCHANGED <<pc, op, arg, ret>>
          ELSE Finish(t, resp, GetMeterConsumptionResult(resp))
    /\ UNCHANGED <<URL, products>>
    /\ UNCHANGED globals

GetMeterConsumptionDone(t) ==
    /\ Waiting(t, "GetMeterConsumption")
    /\ \E resp \in Pick(Responses(ConsumptionBodies, [results |-> <<>>, next |-> <<>>]),
                         FewResponses({[results |-> <<>>, next |-> <<>>]})) :
          Finish(t, resp, GetMeterConsumptionResult(resp))
    /\ UNCHANGED <<URL, products>>
    /\ UNCHANGED globals

(***************************************************************************)
(* The package functions that need no client: a goroutine calls them with  *)
(* its arguments and has the result at once.                               *)
(***************************************************************************)
CanCallFunc(t) == t \in active /\ pc[t] = "idle"

UrlAddUsernameCall(t) ==
    /\ CanCallFunc(t)
    /\ \E u \in Pick(URLs, {<<"http", "://", "www.google.com", "/">>}),
          n \in Pick(Usernames, {<<"user">>}) :
          ReturnEarly(t, "urlAddUsername", [URL |-> u, username |-> n],
                      urlAddUsername(u, n))
    /\ UNCHANGED <<URL, products>>
    /\ UNCHANGED globals

CheckPostcodeCall(t) ==
    /\ CanCallFunc(t)
    /\ \E p \in Pick(PostcodeStrings, {<<"E","2","0"," ","2","S","T">>}) :
          ReturnEarly(t, "checkPostcode", [postcode |-> p],
                      [accepted |-> checkPostcode(p)])
    /\ UNCHANGED <<URL, products>>
    /\ UNCHANGED globals

\* the constructor with a base URL; the client it makes is the caller's
NewClientBaseURLCall(t) ==
    /\ CanCallFunc(t)
    /\ \E u \in Pick(URLs, {<<"https", "://", "localhost", "/", "/">>}),
          key \in Pick({<<"testapikey">>, <<" ">>}, {<<"testapikey">>}),
          h \in Pick(Handles, {"h1"}) :
          LET r == NewClientBaseURL(u, key, h)
          IN  ReturnEarly(t, "NewClientBaseURL",
                          [baseURL |-> u, APIkey |-> key, httpClient |-> h],
                          [client |-> r.client, err |-> r.err])
    /\ UNCHANGED <<URL, products>>
    /\ UNCHANGED globals

(***************************************************************************)
(* The caller takes the result; the goroutine may call again.              *)
(***************************************************************************)
Return(t) ==
    /\ t \in active /\ pc[t] = "done"
    /\ pc' = [pc EXCEPT ![t] = "idle"]
    /\ op' = [op EXCEPT ![t] = ""]
    /\ arg' = [arg EXCEPT ![t] = NoArg]
    /\ URL' = [URL EXCEPT ![t] = <<>>]
    /\ products' = [products EXCEPT ![t] = <<>>]
    /\ ret' = [ret EXCEPT ![t] = NoRet]
    /\ gets' = [gets EXCEPT ![t] = <<>>]
    /\ resps' = [resps EXCEPT ![t] = <<>>]
    /\ UNCHANGED globals

\* the steps of goroutine t that the library or the transport takes
Step(t) ==
    \/ ListProductsPage(t)
    \/ GetProductDone(t)
    \/ GetMeterPointDone(t)
    \/ GetGridSupplyPointDone(t)
    \/ GetMeterConsumptionDone(t)

Next ==
    \/ \E t \in Threads : ListProductsCall(t)
    \/ \E t \in Threads : ListProductsPage(t)
    \/ \E t \in Threads : GetProductCall(t)
    \/ \E t \in Threads : GetProductDone(t)
    \/ \E t \in Threads : GetMeterPointCall(t)
    \/ \E t \in Threads : GetMeterPointDone(t)
    \/ \E t \in Threads : GetGridSupplyPointCall(t)
    \/ \E t \in Threads : GetGridSupplyPointDone(t)
    \/ \E t \in Threads : GetMeterConsumptionCall(t)
    \/ \E t \in Threads : GetMeterConsumptionDone(t)
    \/ \E t \in Threads : UrlAddUsernameCall(t)
    \/ \E t \in Threads : CheckPostcodeCall(t)
    \/ \E t \in Threads : NewClientBaseURLCall(t)
    \/ \E t \in Threads : Return(t)

Spec == Init /\ [][Next]_vars

\* two goroutines calling into the library at once
ConcSpec == InitConc /\ [][Next]_vars

\* a service whose next links never end, every fetch of which completes
LoopSpec == InitLoop /\ [][Next]_vars /\ \A t \in Threads : WF_vars(Step(t))

\* every fetch completes and the library's code keeps running
FairSpec == Spec /\ \A t \in Threads : WF_vars(Step(t))

(***************************************************************************)
(* What the claims speak of.                                               *)
(***************************************************************************)
Done(t, o) == pc[t] = "done" /\ op[t] = o

\* the response is a fetch that succeeded: the transport delivered it, the
\* status is 200 and the body decodes
FetchOK(resp) == ~resp.fail /\ resp.status = 200 /\ resp.body.ok

LastResp(t) == resps[t][Len(resps[t])]

\* the text msg is part of the error e
HasText(e, msg) == \E i \in 1..Len(e) : e[i] = msg

C2_GetsFollowNext ==
    \A t \in Threads :
        (op[t] = "ListProducts" /\ gets[t] # <<>>)
        => /\ gets[t][1] = client.URL \o <<"/products/">>
           /\ \A i \in 2..Len(gets[t]) : gets[t][i] = resps[t][i - 1].body.v.next

\* C3: when a page fetch fails, on the first page or later, ListProducts
\* returns an error and no products; it never returns products with an error.
C3_NoPartialList ==
    \A t \in Threads :
        Done(t, "ListProducts")
        => /\ ~FetchOK(LastResp(t)) => (ret[t].err # NoErr /\ ret[t].val = <<>>)
           /\ ret[t].err # NoErr => ret[t].val = <<>>

\* a walk that had gathered products when a later fetch failed
C3_Witness ==
    \E t \in Threads :
        /\ Done(t, "ListProducts")
        /\ Len(resps[t]) >= 2 /\ ~FetchOK(LastResp(t))
        /\ products[t] # <<>>
        /\ ret[t].err # NoErr /\ ret[t].val = <<>>

\* C4: every ListProducts call over a finite chain of pages whose fetches
\* complete returns; the fetch of a page with an empty next is its last GET
\* and the call returns in that very step.
C4_ListProductsTerminates ==
    /\ \A t \in Threads :
          (pc[t] = "wait" /\ op[t] = "ListProducts") ~> (pc[t] = "done")
    /\ [][\A t \in Threads :
             (/\ pc[t] = "wait" /\ op[t] = "ListProducts"
              /\ Len(resps'[t]) = Len(resps[t]) + 1
              /\ FetchOK(resps'[t][Len(resps'[t])])
              /\ resps'[t][Len(resps'[t])].body.v.next = <<>>)
             => (pc'[t] = "done" /\ gets'[t] = gets[t])]_vars
    /\ [](\A t \in Threads :
             (Done(t, "ListProducts") /\ ret[t].err = NoErr)
             => /\ Len(gets[t]) = Len(resps[t])
                /\ \A i \in 1..(Len(resps[t]) - 1) : resps[t][i].body.v.next # <<>>)

\* a walk that returned right after its second page, which had an empty next
C4_Witness ==
    \E t \in Threads :
        /\ Done(t, "ListProducts") /\ ret[t].err = NoErr
        /\ Len(resps[t]) = 2 /\ Len(gets[t]) = 2
        /\ resps[t][1].body.v.next # <<>>
        /\ resps[t][2].body.v.next = <<>>

\* C5: the outcome of do is decided in a fixed order: a transport failure is
\* an "http get error"; else a status other than 200 is an "http error"
\* whatever the body; else an undecodable body is an "unable to unmarshal
\* json" error; only a 200 response with a decodable body is a success.
C5_DoOrder ==
    \A t \in Threads :
        (pc[t] = "done" /\ resps[t] # <<>>)
        => LET r == LastResp(t)
               e == ret[t].err
               get  == HasText(e, "http get error")
               http == HasText(e, "http error - code")
               json == HasText(e, "unable to unmarshal json")
           IN  /\ r.fail => (get /\ ~http /\ ~json)
               /\ (~r.fail /\ r.status # 200) => (~get /\ http /\ ~json)
               /\ (~r.fail /\ r.status = 200 /\ ~r.body.ok) => (~get /\ ~http /\ json)
               /\ (~r.fail /\ r.status = 200 /\ r.body.ok) => (~get /\ ~http /\ ~json)

\* a 201 response whose body does not decode ended in an "http error"
C5_Witness ==
    \E t \in Threads :
        /\ pc[t] = "done" /\ resps[t] # <<>>
        /\ ~LastResp(t).fail /\ LastResp(t).status = 201 /\ ~LastResp(t).body.ok
        /\ HasText(ret[t].err, "http error - code")

\* the call of t is one of the single-request operations, GetGridSupplyPoint
\* counting only with a postcode the validator accepts
SingleRequestCall(t) ==
    \/ op[t] \in {"GetMeterPoint", "GetProduct", "GetMeterConsumption"}
    \/ op[t] = "GetGridSupplyPoint" /\ checkPostcode(arg[t].postcode)

\* C6, as claimed: each call of GetMeterPoint, GetProduct, GetMeterConsumption
\* and GetGridSupplyPoint with a valid postcode issues exactly one GET.
C6_ExactlyOneGet ==
    \A t \in Threads :
        (pc[t] = "done" /\ SingleRequestCall(t)) => Len(gets[t]) = 1

\* C6, amended: such a call never issues a second GET, and it issues exactly
\* one unless it is a GetMeterConsumption whose mpan or serial number makes
\* the request URL unparsable; that call returns "unable to parse request
\* url" without any GET.
C6_OneGetUnlessUnparsable ==
    \A t \in Threads :
        SingleRequestCall(t)
        => /\ Len(gets[t]) <= 1
           /\ pc[t] = "done"
              => IF /\ op[t] = "GetMeterConsumption"
                    /\ ~(ValidURLChars(arg[t].mpan) /\ ValidURLChars(arg[t].serialNo))
                 THEN /\ Len(gets[t]) = 0
                      /\ HasText(ret[t].err, "unable to parse request url")
                 ELSE Len(gets[t]) = 1 /\ Len(resps[t]) = 1

\* a GetMeterPoint whose request failed in the transport returned after its
\* one GET
C6_Witness ==
    \E t \in Threads :
        /\ Done(t, "GetMeterPoint")
        /\ LastResp(t).fail /\ ret[t].err # NoErr
        /\ Len(gets[t]) = 1

\* C7: for a postcode the validator rejects, GetGridSupplyPoint returns an
\* "invalid postcode" error and issues no GET.
C7_InvalidPostcodeNoGet ==
    \A t \in Threads :
        (op[t] = "GetGridSupplyPoint" /\ ~checkPostcode(arg[t].postcode))
        => /\ gets[t] = <<>> /\ resps[t] = <<>>
           /\ pc[t] = "done"
           /\ ret[t].err = <<"invalid postcode">> \o arg[t].postcode
           /\ ret[t].val = ZeroGSP

\* the postcode SW1A1AA, without its space, was refused before any GET
C7_Witness ==
    \E t \in Threads :
        /\ Done(t, "GetGridSupplyPoint")
        /\ arg[t].postcode = <<"S","W","1","A","1","A","A">>
        /\ HasText(ret[t].err, "invalid postcode")
        /\ gets[t] = <<>>

\* C8: a decoded grid-supply-point answer with zero results or with two or
\* more yields "more than one supply point received", whatever its group
\* ids; GetGridSupplyPoint succeeds only on exactly one result.
C8_ExactlyOneResult ==
    \A t \in Threads :
        (Done(t, "GetGridSupplyPoint") /\ resps[t] # <<>> /\ FetchOK(LastResp(t)))
        => LET n == Len(LastResp(t).body.v.results)
           IN  /\ n # 1 => /\ ret[t].err = <<"more than one supply point received">>
                           /\ ret[t].val = ZeroGSP
               /\ ret[t].err = NoErr => n = 1

\* two results, the first of an unknown group: the count decided
C8_Witness ==
    \E t \in Threads :
        /\ Done(t, "GetGridSupplyPoint") /\ resps[t] # <<>> /\ FetchOK(LastResp(t))
        /\ LastResp(t).body.v.results = <<"_Z", "_A">>
        /\ ret[t].err = <<"more than one supply point received">>

\* C9: for a valid postcode and an answer with exactly one result of group
\* id g, GetGridSupplyPoint returns the whole row of the table whose group id
\* is g, and "unknown grid supply point" when the table has no such row.
C9_ResolvesGroupID ==
    \A t \in Threads :
        (Done(t, "GetGridSupplyPoint") /\ resps[t] # <<>> /\ FetchOK(LastResp(t))
            /\ Len(LastResp(t).body.v.results) = 1)
        => LET g == LastResp(t).body.v.results[1]
           IN  /\ \A i \in 1..Len(GSPsInit) :
                     GSPsInit[i].GSPGroupID = g
                     => (ret[t].err = NoErr /\ ret[t].val = GSPsInit[i])
               /\ (\A i \in 1..Len(GSPsInit) : GSPsInit[i].GSPGroupID # g)
                  => /\ ret[t].err = <<"unknown grid supply point">>
                     /\ ret[t].val = ZeroGSP
               /\ g = "_A" => ret[t].val = GSPsInit[1]

\* the group id "_M" resolved to the last row, Yorkshire
C9_Witness ==
    \E t \in Threads :
        /\ Done(t, "GetGridSupplyPoint") /\ resps[t] # <<>> /\ FetchOK(LastResp(t))
        /\ LastResp(t).body.v.results = <<"_M">>
        /\ ret[t].err = NoErr /\ ret[t].val.Name = "Yorkshire"

\* C10: when the request succeeds and the response's gsp id is the group id
\* of a table row, GetMeterPoint returns the decoded MPAN and profile class
\* and that row as GSP; a successful GetMeterPoint returns a row of the table.
C10_MeterPointResolved ==
    \A t \in Threads :
        (Done(t, "GetMeterPoint") /\ FetchOK(LastResp(t)))
        => LET data == LastResp(t).body.v
           IN  /\ \A i \in 1..Len(GSPsInit) :
                     GSPsInit[i].GSPGroupID = data.gsp
                     => /\ ret[t].err = NoErr
                        /\ ret[t].val = [GSP |-> GSPsInit[i], MPAN |-> data.mpan,
                                         ProfileClass |-> data.profile_class]
               /\ ret[t].err = NoErr
                  => \E i \in 1..Len(GSPsInit) : ret[t].val.GSP = GSPsInit[i]

\* a meter point whose decoded MPAN differs from the one asked for, resolved
\* to the row of "_M"
C10_Witness ==
    \E t \in Threads :
        /\ Done(t, "GetMeterPoint") /\ FetchOK(LastResp(t))
        /\ arg[t].mpan = <<"0123456789">>
        /\ LastResp(t).body.v = [gsp |-> "_M", mpan |-> "9", profile_class |-> 9]
        /\ ret[t].err = NoErr
        /\ ret[t].val.MPAN = "9" /\ ret[t].val.GSP = GSPsInit[14]

\* C11: when the request succeeds and the response's gsp id is the group id
\* of no table row (an absent gsp field decodes to ""), GetMeterPoint returns
\* the error "no grid supply point found" and the zero MeterPoint, without
\* the decoded MPAN or profile class.
C11_NoGSPFound ==
    \A t \in Threads :
        (/\ Done(t, "GetMeterPoint") /\ FetchOK(LastResp(t))
         /\ \A i \in 1..Len(GSPsInit) :
               GSPsInit[i].GSPGroupID # LastResp(t).body.v.gsp)
        => /\ ret[t].err = <<"no grid supply point found">>
           /\ ret[t].val = ZeroMeterPoint

\* an answer without gsp but with an MPAN and a profile class was refused
C11_Witness ==
    \E t \in Threads :
        /\ Done(t, "GetMeterPoint") /\ FetchOK(LastResp(t))
        /\ LastResp(t).body.v = [gsp |-> "", mpan |-> "9", profile_class |-> 9]
        /\ ret[t].err = <<"no grid supply point found">>

\* the pieces of s between the chunks equal to sep
RECURSIVE SplitAt(_, _)
SplitAt(s, sep) ==
    IF \E i \in 1..Len(s) : s[i] = sep
    THEN LET i == CHOOSE i \in 1..Len(s) : s[i] = sep /\ \A j \in 1..(i - 1) : s[j] # sep
         IN  <<SubSeq(s, 1, i - 1)>> \o SplitAt(SubSeq(s, i + 1, Len(s)), sep)
    ELSE <<s>>

\* what a server reads out of one chunk of a query value
QueryUnescapeChunk(c) ==
    CASE c = "+"   -> " "
      [] c = "%2B" -> "+"
      [] c = "%3A" -> ":"
      [] c = "%2F" -> "/"
      [] c = "%3F" -> "?"
      [] c = "%26" -> "&"
      [] c = "%3D" -> "="
      [] c = "%25" -> "%"
      [] c = "%40" -> "@"
      [] OTHER     -> c

\* the <<key, value>> pairs a server reads out of the query string of a URL,
\* in the order sent
QueryParams(u) ==
    LET q     == FirstQuery(u)
        parts == SplitAt(SubSeq(u, q + 1, Len(u)), "&")
        kv(p) == LET e == SplitAt(p, "=")
                 IN  <<e[1], [i \in 1..Len(e[2]) |-> QueryUnescapeChunk(e[2][i])]>>
    IN  IF q = 0 THEN <<>> ELSE [i \in 1..Len(parts) |-> kv(parts[i])]

\* the parameters the options ask for: one per field that is set
WantedParams(o) ==
    (IF o.PageSize # 0 THEN {<< <<"page_size">>, <<ToString(o.PageSize)>> >>} ELSE {})
    \cup (IF o.OrderBy # <<>> THEN {<< <<"order_by">>, o.OrderBy >>} ELSE {})
    \cup (IF o.GroupBy # <<>> THEN {<< <<"group_by">>, o.GroupBy >>} ELSE {})
    \cup (IF ~o.From.zero
          THEN {<< <<"period_from">>, o.From.wall \o <<"+", "0000">> >>} ELSE {})
    \cup (IF ~o.To.zero
          THEN {<< <<"period_to">>, o.To.wall \o <<"+", "0000">> >>} ELSE {})

\* C12: the GET of GetMeterConsumption goes to the consumption path of the
\* meter and carries one query parameter for each option field that is set,
\* with that field's value (a time as its clock reading followed by +0000),
\* and no other parameter; with no field set the URL has no query string.
C12_QueryCarriesSetFields ==
    \A t \in Threads :
        (op[t] = "GetMeterConsumption" /\ gets[t] # <<>>)
        => LET u == gets[t][1]
               q == FirstQuery(u)
               p == QueryParams(u)
               o == arg[t].options
           IN  /\ {p[i] : i \in 1..Len(p)} = WantedParams(o)
               /\ Len(p) = Cardinality(WantedParams(o))
               /\ o = ZeroOption => q = 0
               /\ SubSeq(u, 1, IF q = 0 THEN Len(u) ELSE q - 1)
                    = client.URL \o <<"/", "electricity-meter-points/">> \o arg[t].mpan
                      \o <<"/meters/">> \o arg[t].serialNo \o <<"/consumption/">>

\* a request with all five fields set and two different times
C12_Witness ==
    \E t \in Threads :
        /\ op[t] = "GetMeterConsumption" /\ gets[t] # <<>>
        /\ arg[t].options.PageSize = 10
        /\ arg[t].options.OrderBy # <<>> /\ arg[t].options.GroupBy # <<>>
        /\ ~arg[t].options.From.zero /\ ~arg[t].options.To.zero
        /\ arg[t].options.From # arg[t].options.To
        /\ Len(QueryParams(gets[t][1])) = 5

\* C13: GetMeterConsumption issues no second GET, whatever the answer names
\* as next; on a successful fetch it returns, without error, the readings of
\* that one answer in the order decoded.
C13_NotPaginated ==
    \A t \in Threads :
        op[t] = "GetMeterConsumption"
        => /\ Len(gets[t]) <= 1 /\ Len(resps[t]) <= 1
           /\ (pc[t] = "done" /\ resps[t] # <<>> /\ FetchOK(LastResp(t)))
              => /\ ret[t].err = NoErr
                 /\ ret[t].val = resps[t][1].body.v.results

\* an answer with two different readings and a next link: both readings
\* were returned in order after the one GET
C13_Witness ==
    \E t \in Threads :
        /\ Done(t, "GetMeterConsumption")
        /\ resps[t] # <<>> /\ FetchOK(LastResp(t))
        /\ LastResp(t).body.v.next # <<>>
        /\ Len(ret[t].val) = 2 /\ ret[t].val[1] # ret[t].val[2]
        /\ ret[t].val = LastResp(t).body.v.results
        /\ Len(gets[t]) = 1

\* C14: for a credential that is empty or made of white space only, NewClient
\* returns the error "API key should not be empty" and no client, and no GET
\* is ever issued.
C14_EmptyKeyRefused ==
    (\A i \in 1..Len(newArg.APIkey) : newArg.APIkey[i] \in {" ", "\t", "\n"})
    => /\ client = NilClient
       /\ newErr = <<"API key should not be empty">>
       /\ \A t \in Threads : gets[t] = <<>> /\ resps[t] = <<>>

\* a key of a tab, a space and a line feed was refused
C14_Witness ==
    /\ newArg.APIkey = <<"\t", " ", "\n">>
    /\ client = NilClient
    /\ newErr = <<"API key should not be empty">>

\* the user name as it stands in the userinfo of a URL, with an empty password
UserInfo(username) ==
    Flatten([i \in 1..Len(username) |-> EscapeUserChunk(username[i])]) \o <<":", "@">>

\* C15, as claimed: on a URL that parses, urlAddUsername returns the same URL
\* with the userinfo "<username>:@" put in, everything else unchanged; on a
\* URL that does not parse it returns an error and the empty string.
C15_SameURLWithUser ==
    \A t \in Threads :
        Done(t, "urlAddUsername")
        => IF urlParse(arg[t].URL).ok
           THEN /\ ret[t].err = NoErr
                /\ \E k \in 0..Len(arg[t].URL) :
                      ret[t].val = SubSeq(arg[t].URL, 1, k) \o UserInfo(arg[t].username)
                                   \o SubSeq(arg[t].URL, k + 1, Len(arg[t].URL))
           ELSE ret[t].err # NoErr /\ ret[t].val = <<>>

\* C15, amended: on a URL <scheme>://<rest> that parses, urlAddUsername
\* returns <scheme>://<username>:@<rest>; on a URL that parses and has no
\* scheme it returns //<username>:@<URL>, in which the start of the path has
\* become the host; on a URL that does not parse it returns an error and the
\* empty string.
C15_UserinfoEmbedded ==
    \A t \in Threads :
        Done(t, "urlAddUsername")
        => LET u == arg[t].URL
           IN  IF ~urlParse(u).ok
               THEN ret[t].err = <<"error parsing url">> /\ ret[t].val = <<>>
               ELSE /\ ret[t].err = NoErr
                    /\ ret[t].val =
                         IF Len(u) >= 2 /\ u[2] = "://"
                         THEN <<u[1], "://">> \o UserInfo(arg[t].username)
                              \o SubSeq(u, 3, Len(u))
                         ELSE <<"//">> \o UserInfo(arg[t].username) \o u

\* "user" was embedded in http://www.google.com/
C15_Witness ==
    \E t \in Threads :
        /\ Done(t, "urlAddUsername")
        /\ arg[t].URL = <<"http", "://", "www.google.com", "/">>
        /\ arg[t].username = <<"user">>
        /\ ret[t].val = <<"http", "://", "user", ":", "@", "www.google.com", "/">>
        /\ ret[t].err = NoErr

\* the string with its upper-case letters turned to lower case
ToLower(s) ==
    LET up  == <<"A","B","C","D","E","F","G","H","I","J","K","L","M",
                 "N","O","P","Q","R","S","T","U","V","W","X","Y","Z">>
        low == <<"a","b","c","d","e","f","g","h","i","j","k","l","m",
                 "n","o","p","q","r","s","t","u","v","w","x","y","z">>
    IN  [i \in 1..Len(s) |->
            IF s[i] \in Upper THEN low[CHOOSE k \in 1..26 : up[k] = s[i]] ELSE s[i]]

\* C16: checkPostcode gives a string the answer it gives the same string in
\* lower case: the case of the letters does not matter.
C16_CaseInsensitive ==
    \A t \in Threads :
        Done(t, "checkPostcode")
        => ret[t].accepted = checkPostcode(ToLower(arg[t].postcode))

Context(o) ==
    CASE o = "GetMeterPoint"       -> "error retrieving meterpoint"
      [] o = "GetGridSupplyPoint"  -> "error retrieving grid supply point"
      [] o = "GetMeterConsumption" -> "error retrieving meter consumption"
      [] o = "GetProduct"          -> "error retrieving the product"
      [] o = "ListProducts"        -> "error retrieving products page"

\* the text do gives the failure of a response
Cause(resp) ==
    IF resp.fail THEN "http get error"
    ELSE IF resp.status # 200 THEN "http error - code"
    ELSE "unable to unmarshal json"

\* C18: a domain operation whose last request failed in do (transport
\* failure, status other than 200, undecodable body) returns an error that
\* holds both the operation's context and the text of the cause.
C18_ErrorsWrapped ==
    \A t \in Threads :
        (pc[t] = "done" /\ resps[t] # <<>> /\ ~FetchOK(LastResp(t)))
        => /\ ret[t].err # NoErr
           /\ HasText(ret[t].err, Context(op[t]))
           /\ HasText(ret[t].err, Cause(LastResp(t)))

\* a ListProducts walk whose second page did not decode
C18_Witness ==
    \E t \in Threads :
        /\ Done(t, "ListProducts") /\ Len(resps[t]) = 2
        /\ ~LastResp(t).fail /\ LastResp(t).status = 200 /\ ~LastResp(t).body.ok
        /\ HasText(ret[t].err, "error retrieving products page")
        /\ HasText(ret[t].err, "unable to unmarshal json")

\* a ListProducts walk run alone over the responses rs: the state of its
\* loop after the last of them
RECURSIVE WalkAlone(_)
WalkAlone(rs) ==
    IF rs = <<>>
    THEN [URL |-> <<>>, products |-> <<>>, return |-> FALSE, val |-> <<>>, err |-> NoErr]
    ELSE ListProductsLoop(WalkAlone(SubSeq(rs, 1, Len(rs) - 1)).products, rs[Len(rs)])

\* what the call o with arguments a returns when it runs alone and receives
\* the responses rs
RetAlone(o, a, rs) ==
    CASE o = "ListProducts" ->
            [val |-> WalkAlone(rs).val, err |-> WalkAlone(rs).err]
      [] o = "GetProduct" -> GetProductResult(rs[1])
      [] o = "GetMeterPoint" -> GetMeterPointResult(GSPsInit, rs[1])
      [] o = "GetGridSupplyPoint" ->
            IF rs = <<>>
            THEN [val |-> ZeroGSP, err |-> ErrWrap("invalid postcode", a.postcode)]
            ELSE GetGridSupplyPointResult(GSPsInit, rs[1])
      [] o = "GetMeterConsumption" ->
            IF rs = <<>>
            THEN [val |-> <<>>,
                  err |-> GetMeterConsumptionPath(a.mpan, a.serialNo, a.options).err]
            ELSE GetMeterConsumptionResult(rs[1])
      [] o = "urlAddUsername" -> urlAddUsername(a.URL, a.username)
      [] o = "checkPostcode" -> [accepted |-> checkPostcode(a.postcode)]
      [] o = "NewClientBaseURL" -> NewClientBaseURL(a.baseURL, a.APIkey, a.httpClient)

\* C19: with two goroutines calling at once, in every interleaving, each
\* call that has returned holds the result it returns when run alone over
\* the responses it received, and a ListProducts walk under way has gathered
\* the products of its own pages only.
C19_NoInterference ==
    \A t \in Threads :
        /\ pc[t] = "done" => ret[t] = RetAlone(op[t], arg[t], resps[t])
        /\ (pc[t] = "wait" /\ op[t] = "ListProducts")
           => products[t] = WalkAlone(resps[t]).products

\* a ListProducts walk that returned the products of its two pages while
\* the walk of the other goroutine had fetched a page and waited for the next
C19_Witness ==
    \E t, s \in Threads :
        /\ t # s
        /\ Done(t, "ListProducts") /\ ret[t].err = NoErr
        /\ Len(resps[t]) = 2 /\ Len(ret[t].val) = 2
        /\ pc[s] = "wait" /\ op[s] = "ListProducts" /\ Len(resps[s]) = 1

\* C20: whatever operations have run, the client's base URL and transport
\* handle are those NewClient set, and the arguments it was built from.
C20_ClientImmutable ==
    /\ client = NewClient(newArg.APIkey, newArg.httpClient).client
    /\ ~client.nil
       => /\ client.httpClient = newArg.httpClient
          /\ client.URL = <<"https", "://">> \o UserInfo(TrimSpace(newArg.APIkey))
                          \o <<"api.octopus.energy", "/", "v1">>

\* a walk over two pages has returned and the client still holds the URL
\* NewClient gave it
C20_Witness ==
    \E t \in Threads :
        /\ Done(t, "ListProducts") /\ Len(resps[t]) = 2
        /\ resps[t][1].body.v.next # <<>>
        /\ client.URL = <<"https", "://", "fakeapikey", ":", "@",
                          "api.octopus.energy", "/", "v1">>

\* C21: whatever operations have run, the package variables GSPs and PCs
\* hold their initial contents.
C21_TablesNeverMutated ==
    /\ GSPs = GSPsInit
    /\ PCs = PCsInit

\* a meter point has been resolved to the last row of the table, and the
\* tables are as they were
C21_Witness ==
    \E t \in Threads :
        /\ Done(t, "GetMeterPoint") /\ ret[t].err = NoErr
        /\ ret[t].val.GSP = GSPs[14]
        /\ GSPs = GSPsInit /\ PCs = PCsInit

\* C22: when the service's next links never become empty and every fetch
\* succeeds, a ListProducts call never returns, and each GET it has issued is
\* followed by another (as far as the model follows the call): nothing in
\* the loop counts the turns or remembers the URLs asked for.
C22_UnboundedWalk ==
    /\ [](\A t \in Threads : ~Done(t, "ListProducts"))
    /\ \A t \in Threads : \A n \in 1..(LoopGets - 1) :
          (op[t] = "ListProducts" /\ Len(gets[t]) = n)
          ~> (op[t] = "ListProducts" /\ Len(gets[t]) = n + 1)

\* a walk that is still under way after asking for the same page three times
C22_Witness ==
    \E t \in Threads :
        /\ pc[t] = "wait" /\ op[t] = "ListProducts"
        /\ Len(gets[t]) = LoopGets
        /\ gets[t][2] = gets[t][4] /\ gets[t][4] = gets[t][6]
        /\ Len(products[t]) >= 3

\* the position of the first "@" of u, or 0
FirstAt(u) ==
    IF \E i \in 1..Len(u) : u[i] = "@"
    THEN CHOOSE i \in 1..Len(u) : u[i] = "@" /\ \A j \in 1..(i - 1) : u[j] # "@"
    ELSE 0

\* C23: every URL passed to httpClient.Get, by any operation and for any
\* page of ListProducts, reads https://<credential>:@api.octopus.energy/...:
\* its userinfo is the client's credential with an empty password.
C23_EveryGetAuthenticated ==
    \A t \in Threads : \A i \in 1..Len(gets[t]) :
        LET u == gets[t][i]
            k == FirstAt(u)
        IN  /\ k > 3
            /\ u[1] = "https" /\ u[2] = "://"
            /\ SubSeq(u, 3, k) = UserInfo(TrimSpace(newArg.APIkey))
            /\ u[k + 1] = "api.octopus.energy"
            /\ \A j \in 3..(k - 1) : u[j] \notin {"/", "?", "#"}

\* the GET for the third page of a walk carries the key given as " key\t"
C23_Witness ==
    \E t \in Threads :
        /\ op[t] = "ListProducts" /\ Len(gets[t]) = 3
        /\ newArg.APIkey = <<" ", "key", "\t">>
        /\ SubSeq(gets[t][3], 1, 6) = <<"https", "://", "key", ":", "@", "api.octopus.energy">>

\* s ends with e
EndsWith(s, e) == Len(e) <= Len(s) /\ SubSeq(s, Len(s) - Len(e) + 1, Len(s)) = e

\* C24: a ListProducts call issues one GET per page and in the order of the
\* chain: each GET after the first follows a page that was fetched well and
\* named a next page, and is the GET for that next link; after a failed fetch
\* or a page with an empty next there is no further GET, so a call that has
\* returned issued as many GETs as there are pages up to and including the
\* first that failed or had an empty next.
C24_OneGetPerPage ==
    \A t \in Threads :
        op[t] = "ListProducts"
        => /\ Len(gets[t]) = Len(resps[t]) + (IF pc[t] = "wait" THEN 1 ELSE 0)
           /\ \A i \in 1..(Len(gets[t]) - 1) :
                 /\ FetchOK(resps[t][i])
                 /\ resps[t][i].body.v.next # <<>>
                 /\ EndsWith(gets[t][i + 1], resps[t][i].body.v.next)
           /\ pc[t] = "done"
              => (~FetchOK(LastResp(t)) \/ LastResp(t).body.v.next = <<>>)

\* a walk that stopped at its second page, whose fetch failed, after two GETs
C24_Witness ==
    \E t \in Threads :
        /\ Done(t, "ListProducts")
        /\ Len(gets[t]) = 2 /\ Len(resps[t]) = 2
        /\ LastResp(t).fail
        /\ ret[t].err # NoErr

\* the whole of s is a postcode: GIR 0AA, or outward code, space, inward code
WholePostcode(s) ==
    \/ MatchGIR(s) /\ Len(s) = 7
    \/ MatchOutIn(s)

\* C25: checkPostcode accepts a string only when the whole string is a
\* postcode; a postcode with characters before or after it is rejected.
C25_WholeStringOnly ==
    \A t \in Threads :
        (Done(t, "checkPostcode") /\ ret[t].accepted)
        => WholePostcode(arg[t].postcode)

\* the value a server reads for the first parameter of the query of u
FirstParamValue(u) ==
    LET q == FirstQuery(u)
        p == SplitAt(SubSeq(u, q + 1, Len(u)), "&")[1]
    IN  [i \in 1..(Len(p) - 2) |-> QueryUnescapeChunk(p[i + 2])]

\* C26: for a postcode the validator accepts, the GET of GetGridSupplyPoint
\* goes to the grid-supply-points path with the one parameter postcode, whose
\* value is the input without its spaces.
C26_PostcodeParamCleaned ==
    \A t \in Threads :
        (op[t] = "GetGridSupplyPoint" /\ gets[t] # <<>>)
        => LET u == gets[t][1]
               q == FirstQuery(u)
           IN  /\ SubSeq(u, q + 1, q + 2) = <<"postcode", "=">>
               /\ FirstParamValue(u) = SelectSeq(arg[t].postcode, LAMBDA c : c # " ")
               /\ \A i \in (q + 1)..Len(u) : u[i] # " "

\* C27: a MeterPoint returned without error by GetMeterPoint has a profile
\* class that is a key of PCs, that is, one of 0..8.
C27_ProfileClassInTable ==
    \A t \in Threads :
        (Done(t, "GetMeterPoint") /\ ret[t].err = NoErr)
        => /\ ret[t].val.ProfileClass \in DOMAIN PCs
           /\ ret[t].val.ProfileClass \in 0..8

\* a time as a server reads a period_from or period_to value: the clock
\* reading, at the offset the value states
SentTime(v) ==
    [wall |-> SubSeq(v, 1, Len(v) - 2),
     off  |-> IF SubSeq(v, Len(v) - 1, Len(v)) = <<"+", "0000">> THEN 0 ELSE -1]

\* two times of the same clock reading are the same instant exactly when
\* their offsets are the same
SameInstant(a, b) == a.wall = b.wall /\ a.off = b.off

\* the value of the parameter named key in the GET URL u, <<>> if absent
ParamValue(u, key) ==
    LET p == QueryParams(u)
    IN  IF \E i \in 1..Len(p) : p[i][1] = <<key>>
        THEN p[CHOOSE i \in 1..Len(p) : p[i][1] = <<key>>][2]
        ELSE <<>>

\* C28: the period_from and period_to values of the GET, read at the +0000
\* offset they state, are the instants of the filter's From and To.
C28_SameInstants ==
    \A t \in Threads :
        (op[t] = "GetMeterConsumption" /\ gets[t] # <<>>)
        => LET o == arg[t].options
               u == gets[t][1]
           IN  /\ ~o.From.zero
                  => SameInstant(SentTime(ParamValue(u, "period_from")),
                                 [wall |-> o.From.wall, off |-> o.From.off])
               /\ ~o.To.zero
                  => SameInstant(SentTime(ParamValue(u, "period_to")),
                                 [wall |-> o.To.wall, off |-> o.To.off])

\* C29: the GSP table has 14 rows whose group ids differ pairwise and whose
\* numeric ids differ pairwise, so a group id matches at most one row and a
\* scan from either end finds the same row; a lookup that succeeded returned
\* the only row of its group id.
C29_DistinctRows ==
    /\ Len(GSPs) = 14
    /\ \A i, j \in 1..Len(GSPs) :
          i # j => /\ GSPs[i].GSPGroupID # GSPs[j].GSPGroupID
                   /\ GSPs[i].ID # GSPs[j].ID
    /\ \A t \in Threads :
          (Done(t, "GetGridSupplyPoint") /\ ret[t].err = NoErr)
          => \A i \in 1..Len(GSPs) :
                GSPs[i].GSPGroupID = LastResp(t).body.v.results[1] => ret[t].val = GSPs[i]

\* the group id "_A" was resolved to the row of Eastern England, the only one
\* of that group id
C29_Witness ==
    \E t \in Threads :
        /\ Done(t, "GetGridSupplyPoint") /\ ret[t].err = NoErr
        /\ LastResp(t).body.v.results = <<"_A">>
        /\ ret[t].val.ID = 10
        /\ Cardinality({i \in 1..Len(GSPs) : GSPs[i].GSPGroupID = "_A"}) = 1

\* the key without the white space at its ends
KeyCore(key) ==
    LET ink == {i \in 1..Len(key) : key[i] \notin {" ", "\t", "\n"}}
    IN  IF ink = {} THEN <<>>
        ELSE SubSeq(key, CHOOSE i \in ink : \A j \in ink : i <= j,
                         CHOOSE i \in ink : \A j \in ink : i >= j)

\* C30: for a key that is not empty once trimmed, NewClient returns no error
\* and a client whose URL is https://<trimmed key>:@api.octopus.energy/v1,
\* which does not end in a slash, and whose transport is the handle given.
C30_ProductionClient ==
    KeyCore(newArg.APIkey) # <<>>
    => /\ newErr = NoErr /\ ~client.nil
       /\ client.URL = <<"https", "://">> \o UserInfo(KeyCore(newArg.APIkey))
                       \o <<"api.octopus.energy", "/", "v1">>
       /\ client.URL[Len(client.URL)] # "/"
       /\ client.httpClient = newArg.httpClient

\* the key " key\t" with the handle h2 gave https://key:@api.octopus.energy/v1
C30_Witness ==
    /\ newArg = [APIkey |-> <<" ", "key", "\t">>, httpClient |-> "h2"]
    /\ newErr = NoErr
    /\ client = [nil |-> FALSE, httpClient |-> "h2",
                 URL |-> <<"https", "://", "key", ":", "@", "api.octopus.energy", "/", "v1">>]

====
